---- MODULE Spec2Model ----
(***************************************************************************)
(* A model of src/python/complex_code.py: the ComplexProcessor class       *)
(* (tier classification, enrichment, kind-based side aggregation, the      *)
(* memoised factorial) and the process_complex_data entry point.           *)
(*                                                                         *)
(* Python values are tagged records.  A field of a given name always has   *)
(* the same TLA+ type, whatever the kind of the value:                     *)
(*   [k |-> "num", n, d]   an int or float, the rational n/d in lowest     *)
(*                         terms (d >= 1); an integral number is an int    *)
(*   [k |-> "bool", b]     True / False                                    *)
(*   [k |-> "str", t]      text, a sequence of one-character strings       *)
(*   [k |-> "none"]        None                                            *)
(*   [k |-> "list", c]     a list, c the sequence of its values            *)
(*   [k |-> "map", c]      a dict, c the sequence of its entries           *)
(*                         [key, val] in insertion order                   *)
(*   [k |-> "set", e]      a set, e the set of its values                  *)
(* Arithmetic on numbers is exact (rationals): floating-point rounding     *)
(* and the non-finite float objects are not part of the model; the texts   *)
(* "inf" and "nan" are, through the parser of float().                     *)
(* A record (a dict keyed by field name) is a function from field names    *)
(* to values.                                                              *)
(***************************************************************************)
EXTENDS Integers, Sequences, FiniteSets, TLC

VARIABLES
    data,          \* self.data: the input records, as they are now
    data0,         \* the input records as they were handed over
    threshold,     \* the threshold of the run
    entry,         \* the function called: "process_data" or "process_complex_data"
    pc,            \* "start", "loop", "post", "done", "raised" ("idle": no call)
    idx,           \* process_data: the position of the next record of the loop
    result,        \* the result dict being built, then returned
    err,           \* the exception that ended the call, and where it was raised
    cache,         \* self._cache
    it,            \* process_complex_data: the iterator of `for category in result`
    run,           \* process_data: the number of the run
    prev,          \* process_data: what the run before returned
    catValue,      \* _categorize_value: the value argument
    catThreshold,  \* _categorize_value: the threshold argument
    catResult,     \* _categorize_value: the returned tier, "unset" before the call
    email,         \* _validate_email: the email argument
    emailResult,   \* _validate_email: "True", "False" or the exception; "unset" before
    call,          \* simulate_api_call: the locals of one call and what it returned
    apiLog,        \* simulate_api_call: what the call awaited and drew, in order
    hook,          \* test_webhook: its locals, the tasks of the run, its report
    main,          \* main: where it is, what the decorated test_webhook gave it,
                   \* how its data-processing step ended, what it returned
    direct         \* _calculate_factorial called on the processor: the last
                   \* argument, what it returned, the number of calls so far

catVars == <<catValue, catThreshold, catResult>>
procVars == <<data, data0, threshold, entry, pc, idx, result, err, cache, it, run, prev>>
emailVars == <<email, emailResult>>
apiVars == <<call, apiLog>>
hookVars == <<hook>>
directVars == <<direct>>
mainVars == <<main>>
otherVars == <<emailVars, apiVars, hookVars, directVars, mainVars>>
vars == <<procVars, catVars, otherVars>>

----------------------------------------------------------------------------
(* Bounds of the model *)

\* Longest text drawn in full from Chars.
MaxTextLen == 3
\* Longest run of padding characters put in front of a drawn text.
MaxPad == 21
\* Largest threshold tried.
MaxThreshold == 3
\* Most records in the input of a run.
MaxData == 2
\* Most runs of process_data on one processor.
MaxRuns == 2
\* The longest email text tried, apart from the examples.
MaxEmailLen == 7
\* The largest max_retries a call of simulate_api_call is given.
MaxRetries == 3
\* The largest argument of a call of _calculate_factorial from outside.
MaxFactorial == 10
\* The most calls of _calculate_factorial from outside.
MaxCalls == 2

----------------------------------------------------------------------------
(* Values *)

Num(n, d) == [k |-> "num", n |-> n, d |-> d]
Bool(b) == [k |-> "bool", b |-> b]
Str(t) == [k |-> "str", t |-> t]
None == [k |-> "none"]
List(c) == [k |-> "list", c |-> c]
Map(c) == [k |-> "map", c |-> c]
PySet(e) == [k |-> "set", e |-> e]
Entry(key, val) == [key |-> key, val |-> val]

Abs(i) == IF i < 0 THEN -i ELSE i

RECURSIVE Gcd(_, _)
Gcd(a, b) == IF b = 0 THEN a ELSE Gcd(b, a % b)

\* The rational n/d (d /= 0) in lowest terms with a positive denominator.
Rat(n, d) ==
    LET g == Gcd(Abs(n), Abs(d))
        s == IF d < 0 THEN -1 ELSE 1
    IN  Num((s * n) \div g, (s * d) \div g)

Int2Num(i) == Num(i, 1)
RMul(a, b) == Rat(a.n * b.n, a.d * b.d)
RSub(a, b) == Rat(a.n * b.d - b.n * a.d, a.d * b.d)
RDiv(a, b) == Rat(a.n * b.d, a.d * b.n)
RLt(a, b) == a.n * b.d < b.n * a.d
RLe(a, b) == a.n * b.d <= b.n * a.d

RECURSIVE Pow10(_)
Pow10(e) == IF e = 0 THEN 1 ELSE 10 * Pow10(e - 1)

RECURSIVE Rep(_, _)
Rep(c, k) == IF k = 0 THEN <<>> ELSE <<c>> \o Rep(c, k - 1)

----------------------------------------------------------------------------
(* float(text): the parser behind `num = float(value)` *)

DigitChars == {"0", "1", "2", "3", "4", "5", "6", "7", "8", "9"}
DigitVal(c) ==
    CASE c = "0" -> 0 [] c = "1" -> 1 [] c = "2" -> 2 [] c = "3" -> 3
      [] c = "4" -> 4 [] c = "5" -> 5 [] c = "6" -> 6 [] c = "7" -> 7
      [] c = "8" -> 8 [] c = "9" -> 9

IsSpace(c) == c \in {" ", "\t", "\n"}

LowerLetters ==
    <<"a", "b", "c", "d", "e", "f", "g", "h", "i", "j", "k", "l", "m",
      "n", "o", "p", "q", "r", "s", "t", "u", "v", "w", "x", "y", "z">>
UpperLetters ==
    <<"A", "B", "C", "D", "E", "F", "G", "H", "I", "J", "K", "L", "M",
      "N", "O", "P", "Q", "R", "S", "T", "U", "V", "W", "X", "Y", "Z">>

LetterChars ==
    {LowerLetters[i] : i \in 1..Len(LowerLetters)}
      \cup {UpperLetters[i] : i \in 1..Len(UpperLetters)}

LowerChar(c) ==
    IF \E i \in 1..Len(UpperLetters) : UpperLetters[i] = c
    THEN LowerLetters[CHOOSE i \in 1..Len(UpperLetters) : UpperLetters[i] = c]
    ELSE c

UpperChar(c) ==
    IF \E i \in 1..Len(LowerLetters) : LowerLetters[i] = c
    THEN UpperLetters[CHOOSE i \in 1..Len(LowerLetters) : LowerLetters[i] = c]
    ELSE c

Lower(t) == [i \in 1..Len(t) |-> LowerChar(t[i])]
Upper(t) == [i \in 1..Len(t) |-> UpperChar(t[i])]

RECURSIVE LStrip(_)
LStrip(t) == IF t /= <<>> /\ IsSpace(Head(t)) THEN LStrip(Tail(t)) ELSE t

RECURSIVE RStrip(_)
RStrip(t) ==
    IF t /= <<>> /\ IsSpace(t[Len(t)]) THEN RStrip(SubSeq(t, 1, Len(t) - 1)) ELSE t

Strip(t) == RStrip(LStrip(t))

\* Position of the first character of t that lies in cs; 0 when there is none.
FirstIn(t, cs) ==
    IF \E i \in 1..Len(t) : t[i] \in cs
    THEN CHOOSE i \in 1..Len(t) : t[i] \in cs /\ \A j \in 1..(i - 1) : t[j] \notin cs
    ELSE 0

\* A digit part: digits, with single underscores allowed between two digits.
IsDigitPart(t) ==
    /\ t /= <<>>
    /\ \A i \in 1..Len(t) : t[i] \in DigitChars \cup {"_"}
    /\ t[1] /= "_" /\ t[Len(t)] /= "_"
    /\ \A i \in 1..(Len(t) - 1) : ~(t[i] = "_" /\ t[i + 1] = "_")

RECURSIVE DigitsValue(_, _)
DigitsValue(t, acc) ==
    IF t = <<>> THEN acc
    ELSE IF Head(t) = "_" THEN DigitsValue(Tail(t), acc)
    ELSE DigitsValue(Tail(t), 10 * acc + DigitVal(Head(t)))

RECURSIVE DigitCount(_)
DigitCount(t) ==
    IF t = <<>> THEN 0
    ELSE (IF Head(t) = "_" THEN 0 ELSE 1) + DigitCount(Tail(t))

Finite(r) == [ok |-> TRUE, cls |-> "fin", n |-> r.n, d |-> r.d]
Special(cls) == [ok |-> TRUE, cls |-> cls, n |-> 0, d |-> 1]
ParseError == [ok |-> FALSE, cls |-> "err", n |-> 0, d |-> 1]

\* The value of a decimal literal from its parts: the digits before and after
\* the point, and the exponent (eNeg: it is negative).
DecimalValue(ip, fp, eDig, eNeg) ==
    Finite(RMul(Rat(DigitsValue(ip, 0) * Pow10(DigitCount(fp)) + DigitsValue(fp, 0),
                    Pow10(DigitCount(fp))),
                IF eNeg THEN Rat(1, Pow10(DigitsValue(eDig, 0)))
                ELSE Rat(Pow10(DigitsValue(eDig, 0)), 1)))

\* The mantissa is digits [. [digits]] | . digits (hasDot: it has a point) and
\* the exponent, when there is one (hasExp), is [+-]digits.
DecimalParts(ip, fp, hasDot, eDig, eNeg, hasExp) ==
    IF /\ IF hasDot
          THEN /\ ip = <<>> \/ IsDigitPart(ip)
               /\ fp = <<>> \/ IsDigitPart(fp)
               /\ ~(ip = <<>> /\ fp = <<>>)
          ELSE IsDigitPart(ip)
       /\ hasExp => IsDigitPart(eDig)
    THEN DecimalValue(ip, fp, eDig, eNeg)
    ELSE ParseError

\* The mantissa split at its point (dPos: its position, 0 for none), the
\* exponent at its sign.
DecimalSplit(mant, dPos, expo, hasExp) ==
    DecimalParts(IF dPos = 0 THEN mant ELSE SubSeq(mant, 1, dPos - 1),
                 IF dPos = 0 THEN <<>> ELSE SubSeq(mant, dPos + 1, Len(mant)),
                 dPos /= 0,
                 IF expo /= <<>> /\ Head(expo) \in {"+", "-"} THEN Tail(expo) ELSE expo,
                 expo /= <<>> /\ Head(expo) = "-",
                 hasExp)

\* The literal split at its first e or E (ePos: its position, 0 for none).
DecimalAt(t, ePos) ==
    IF ePos = 0
    THEN DecimalSplit(t, FirstIn(t, {"."}), <<>>, FALSE)
    ELSE DecimalSplit(SubSeq(t, 1, ePos - 1), FirstIn(SubSeq(t, 1, ePos - 1), {"."}),
                      SubSeq(t, ePos + 1, Len(t)), TRUE)

\* An unsigned decimal literal: digits [. [digits]] | . digits, then an
\* optional exponent [eE][+-]digits.
ParseDecimal(t) == DecimalAt(t, FirstIn(t, {"e", "E"}))

Inf == <<"i", "n", "f">>
Infinity == <<"i", "n", "f", "i", "n", "i", "t", "y">>
NaN == <<"n", "a", "n">>

Negate(r) == IF r.ok THEN Finite(Rat(-r.n, r.d)) ELSE r

\* The text after the sign: inf / infinity / nan in any case (low: the text in
\* lower case), or a decimal literal.
ParseUnsigned(body, low, neg) ==
    IF low = Inf \/ low = Infinity THEN Special(IF neg THEN "ninf" ELSE "inf")
    ELSE IF low = NaN THEN Special("nan")
    ELSE IF neg THEN Negate(ParseDecimal(body))
    ELSE ParseDecimal(body)

\* The stripped text: an optional sign, then the rest.
ParseSigned(s) ==
    IF s /= <<>> /\ Head(s) \in {"+", "-"}
    THEN ParseUnsigned(Tail(s), Lower(Tail(s)), Head(s) = "-")
    ELSE ParseUnsigned(s, Lower(s), FALSE)

\* float(t) for a text t: surrounding whitespace is dropped, then an optional
\* sign, then inf / infinity / nan (any case) or a decimal literal.
ParseFloat(t) == ParseSigned(Strip(t))

\* float(value): a number converts to itself, a bool to 1.0 / 0.0, a text is
\* parsed (ValueError when it is not a literal), anything else is a TypeError.
ToFloat(value) ==
    CASE value.k = "num" -> Finite(value)
      [] value.k = "bool" -> Finite(Int2Num(IF value.b THEN 1 ELSE 0))
      [] value.k = "str" -> ParseFloat(value.t)
      [] OTHER -> ParseError

\* num > bound for a parsed float and an integer bound.
FloatGt(f, bound) ==
    CASE f.cls = "fin" -> RLt(Int2Num(bound), Num(f.n, f.d))
      [] f.cls = "inf" -> TRUE
      [] OTHER -> FALSE

----------------------------------------------------------------------------
(* ComplexProcessor._categorize_value *)

\* Text lengths above which a non-numeric text is medium / high.
MediumTextLen == 10
HighTextLen == 20

\* num >= bound, the comparison _categorize_value does not make.
FloatGe(f, bound) ==
    CASE f.cls = "fin" -> RLe(Int2Num(bound), Num(f.n, f.d))
      [] f.cls = "inf" -> TRUE
      [] OTHER -> FALSE

\* The tier of a text that float() rejects, or of a value that is no text.
TextTier(value) ==
    IF value.k = "str" /\ Len(value.t) > MediumTextLen
    THEN (IF Len(value.t) > HighTextLen THEN "high" ELSE "medium")
    ELSE "low"

\* Tier with the numeric boundaries taken with >= instead of >.
TierInclusive(value, thr, num) ==
    IF num.ok
    THEN IF FloatGe(num, thr * 2) THEN "high"
         ELSE IF FloatGe(num, thr) THEN "medium"
         ELSE "low"
    ELSE TextTier(value)

\* Tier with the text boundaries taken with >= instead of >.
TierTextInclusive(value, thr, num) ==
    IF num.ok
    THEN IF FloatGt(num, thr * 2) THEN "high"
         ELSE IF FloatGt(num, thr) THEN "medium"
         ELSE "low"
    ELSE IF value.k = "str" /\ Len(value.t) >= MediumTextLen
         THEN (IF Len(value.t) >= HighTextLen THEN "high" ELSE "medium")
         ELSE "low"

\* Tier with only the ValueError of float() caught: the TypeError of a value
\* that is neither a number nor a text gets out.
TierValueErrorOnly(value, thr, num) ==
    IF num.ok
    THEN IF FloatGt(num, thr * 2) THEN "high"
         ELSE IF FloatGt(num, thr) THEN "medium"
         ELSE "low"
    ELSE IF value.k = "str" THEN TextTier(value)
    ELSE "TypeError"

\* The tier once float(value) has returned num or raised.
Tier(value, thr, num) ==
    IF num.ok
    THEN IF FloatGt(num, thr * 2) THEN "high"
         ELSE IF FloatGt(num, thr) THEN "medium"
         ELSE "low"
    ELSE TextTier(value)

_categorize_value(value, thr) == Tier(value, thr, ToFloat(value))

----------------------------------------------------------------------------
(* Helpers on values: truthiness, hashing, dict access, str() *)

\* bool(v), as `any(...)` takes it.
Truthy(v) ==
    CASE v.k = "num" -> v.n /= 0
      [] v.k = "bool" -> v.b
      [] v.k = "str" -> v.t /= <<>>
      [] v.k = "none" -> FALSE
      [] v.k = "list" -> v.c /= <<>>
      [] v.k = "map" -> v.c /= <<>>
      [] v.k = "set" -> v.e /= {}

\* Lists, dicts and sets cannot be members of a set.
Hashable(v) == v.k \in {"num", "bool", "str", "none"}

\* True and 1, False and 0 are one and the same set member.
HashKey(v) == IF v.k = "bool" THEN Int2Num(IF v.b THEN 1 ELSE 0) ELSE v

\* s.add(v) for a set s and a hashable v.
SetAdd(s, v) ==
    IF \E x \in s.e : HashKey(x) = HashKey(v) THEN s ELSE PySet(s.e \cup {v})

\* key in m, m[key] for a dict m.
MapHas(m, key) == \E i \in 1..Len(m.c) : m.c[i].key = key
MapGet(m, key) == m.c[CHOOSE i \in 1..Len(m.c) : m.c[i].key = key].val

\* d[key] = val on the entries of a dict: an existing key keeps its place.
DictPut(c, key, val) ==
    IF \E i \in 1..Len(c) : c[i].key = key
    THEN [i \in 1..Len(c) |-> IF c[i].key = key THEN Entry(key, val) ELSE c[i]]
    ELSE Append(c, Entry(key, val))

DigitChar(i) == <<"0", "1", "2", "3", "4", "5", "6", "7", "8", "9">>[i + 1]

RECURSIVE NatText(_)
NatText(i) == IF i < 10 THEN <<DigitChar(i)>> ELSE NatText(i \div 10) \o <<DigitChar(i % 10)>>

IntText(i) == IF i < 0 THEN <<"-">> \o NatText(-i) ELSE NatText(i)

\* The least e with 10^e a multiple of d (d a product of twos and fives).
RECURSIVE DecimalPlaces(_, _)
DecimalPlaces(d, e) == IF Pow10(e) % d = 0 THEN e ELSE DecimalPlaces(d, e + 1)

RECURSIVE ZeroFill(_, _)
ZeroFill(t, w) == IF Len(t) >= w THEN t ELSE ZeroFill(<<"0">> \o t, w)

\* The decimal expansion of the non-negative m / 10^e, with e places.
DecimalText(m, e) ==
    NatText(m \div Pow10(e)) \o <<".">> \o ZeroFill(NatText(m % Pow10(e)), e)

FloatText(v, e) ==
    (IF v.n < 0 THEN <<"-">> ELSE <<>>)
      \o DecimalText((Abs(v.n) * Pow10(e)) \div v.d, e)

\* str(v) of a number: an int prints its digits, a float its finite decimal
\* expansion (the model's non-integral numbers have one).
NumText(v) == IF v.d = 1 THEN IntText(v.n) ELSE FloatText(v, DecimalPlaces(v.d, 1))

RECURSIVE PyRepr(_)
RECURSIVE JoinReprs(_)
RECURSIVE JoinEntries(_)

\* ", ".join(repr(x) for x in c)
JoinReprs(c) ==
    IF c = <<>> THEN <<>>
    ELSE IF Len(c) = 1 THEN PyRepr(c[1])
    ELSE PyRepr(c[1]) \o <<",", " ">> \o JoinReprs(Tail(c))

\* ", ".join(repr(k) + ": " + repr(v) for k, v in c)
JoinEntries(c) ==
    IF c = <<>> THEN <<>>
    ELSE LET one == PyRepr(c[1].key) \o <<":", " ">> \o PyRepr(c[1].val)
         IN  IF Len(c) = 1 THEN one ELSE one \o <<",", " ">> \o JoinEntries(Tail(c))

\* repr(v); a text is quoted (the model's texts hold no quote or backslash).
\* The repr of a non-empty set depends on its hash order and is left out.
PyRepr(v) ==
    CASE v.k = "num" -> NumText(v)
      [] v.k = "bool" -> IF v.b THEN <<"T", "r", "u", "e">> ELSE <<"F", "a", "l", "s", "e">>
      [] v.k = "str" -> <<"'">> \o v.t \o <<"'">>
      [] v.k = "none" -> <<"N", "o", "n", "e">>
      [] v.k = "list" -> <<"[">> \o JoinReprs(v.c) \o <<"]">>
      [] v.k = "map" -> <<"{">> \o JoinEntries(v.c) \o <<"}">>
      [] v.k = "set" /\ v.e = {} -> <<"s", "e", "t", "(", ")">>

\* str(v): a text is itself, anything else its repr.
PyStr(v) == IF v.k = "str" THEN v.t ELSE PyRepr(v)

----------------------------------------------------------------------------
(* Field names and literals of the code, as texts *)

KPriority == <<"p", "r", "i", "o", "r", "i", "t", "y">>
KCategory == <<"c", "a", "t", "e", "g", "o", "r", "y">>
KNested == <<"n", "e", "s", "t", "e", "d">>
TUser == <<"u", "s", "e", "r">>
TProduct == <<"p", "r", "o", "d", "u", "c", "t">>
TUnknown == <<"U", "n", "k", "n", "o", "w", "n">>

PriorityKeywords ==
    { <<"c", "r", "i", "t", "i", "c", "a", "l">>,
      <<"i", "m", "p", "o", "r", "t", "a", "n", "t">>,
      <<"u", "r", "g", "e", "n", "t">>,
      <<"h", "i", "g", "h">>, <<"m", "e", "d", "i", "u", "m">>, <<"l", "o", "w">> }

\* Shortest word that long_word_count counts.
LongWordLen == 6
\* The argument of the factorial is taken modulo this.
FactorialModulus == 10
\* A discount applies when it lies between 0 and this, as a percentage of this.
DiscountMax == 100
\* threshold when the caller gives none.
DefaultThreshold == 10

----------------------------------------------------------------------------
(* ComplexProcessor._calculate_factorial: [val, cache] for an argument n >= 0
   and the cache before the call *)

\* _calculate_factorial with the result of the base case taken to be n.
RECURSIVE CalculateFactorialBaseN(_, _)
CalculateFactorialBaseN(n, cch) ==
    IF n \in DOMAIN cch THEN [val |-> cch[n], cache |-> cch]
    ELSE IF n = 0 \/ n = 1 THEN [val |-> n, cache |-> (n :> n) @@ cch]
    ELSE LET r == CalculateFactorialBaseN(n - 1, cch)
         IN  [val |-> n * r.val, cache |-> (n :> (n * r.val)) @@ r.cache]

RECURSIVE _calculate_factorial(_, _)
_calculate_factorial(n, cch) ==
    IF n \in DOMAIN cch THEN [val |-> cch[n], cache |-> cch]
    ELSE IF n = 0 \/ n = 1 THEN [val |-> 1, cache |-> (n :> 1) @@ cch]
    ELSE LET r == _calculate_factorial(n - 1, cch)
         IN  [val |-> n * r.val, cache |-> (n :> (n * r.val)) @@ r.cache]

----------------------------------------------------------------------------
(* ComplexProcessor._process_high_value *)

\* A number or a bool as a rational (isinstance(v, (int, float)) holds of both).
IsNumber(v) == v.k \in {"num", "bool"}
AsNum(v) == IF v.k = "bool" THEN Int2Num(IF v.b THEN 1 ELSE 0) ELSE v

\* IntAbs with the absolute value rounded up instead of truncated.
IntAbsCeil(v) == (Abs(AsNum(v).n) + AsNum(v).d - 1) \div AsNum(v).d

\* int(abs(v)): the absolute value, truncated.
IntAbs(v) == Abs(AsNum(v).n) \div AsNum(v).d

\* any(tag.get('priority') for tag in tags): "True", "False", or the
\* AttributeError of the first entry reached that has no get().
RECURSIVE AnyPriority(_)
AnyPriority(tags) ==
    IF tags = <<>> THEN "False"
    ELSE IF Head(tags).k /= "map" THEN "AttributeError"
    ELSE IF MapHas(Head(tags), Str(KPriority))
              /\ Truthy(MapGet(Head(tags), Str(KPriority)))
         THEN "True"
    ELSE AnyPriority(Tail(tags))

\* The loop `result.setdefault('categories', set()).add(tag['category'])` over
\* the tags.  st.has: the copy holds 'categories'; st.val: its value; st.exc:
\* the exception that ended the loop.
RECURSIVE AddCategories(_, _)
AddCategories(tags, st) ==
    IF tags = <<>> \/ st.exc /= "none" THEN st
    ELSE LET tag == Head(tags)
             cur == IF st.has THEN st.val ELSE PySet({})
         IN  IF tag.k = "map" /\ MapHas(tag, Str(KCategory))
             THEN IF cur.k /= "set"
                  THEN [has |-> TRUE, val |-> cur, exc |-> "AttributeError"]
                  ELSE IF ~Hashable(MapGet(tag, Str(KCategory)))
                  THEN [has |-> TRUE, val |-> cur, exc |-> "TypeError"]
                  ELSE AddCategories(Tail(tags),
                         [has |-> TRUE,
                          val |-> SetAdd(cur, MapGet(tag, Str(KCategory))),
                          exc |-> "none"])
             ELSE AddCategories(Tail(tags), st)

IsWordChar(c) == c \in LetterChars \cup DigitChars \cup {"_"}

\* The maximal runs of word characters of t, in order; cur is the run so far.
RECURSIVE Words(_, _)
Words(t, cur) ==
    IF t = <<>> THEN (IF cur = <<>> THEN <<>> ELSE <<cur>>)
    ELSE IF IsWordChar(Head(t)) THEN Words(Tail(t), Append(cur, Head(t)))
    ELSE (IF cur = <<>> THEN <<>> ELSE <<cur>>) \o Words(Tail(t), <<>>)

\* len(re.findall(r'\b\w{6,}\b', t)) from the words w of t: each maximal run
\* of six word characters or more is one match.
LongWordCount(w) == Cardinality({i \in 1..Len(w) : Len(w[i]) >= LongWordLen})

\* Either pattern is found: some whole word is a keyword, whatever its case.
HasPriorityKeyword(w) == \E i \in 1..Len(w) : Lower(w[i]) \in PriorityKeywords

\* The field f of item set to v in a copy.
With(item, f, v) == (f :> v) @@ item

\* The state of an enricher: rec, the copy being enriched; item, the input
\* record as it is now; cache, the cache; exc, the exception raised ("none":
\* none so far).
Enriching(item, cch) == [rec |-> item, item |-> item, cache |-> cch, exc |-> "none"]

TagsOn(item) == "tags" \in DOMAIN item /\ item["tags"].k = "list"

\* tag_count and has_priority, prio being what any(...) gave.
HighTagsSet(item, st, prio) ==
    IF prio = "AttributeError" THEN [st EXCEPT !.exc = prio]
    ELSE [st EXCEPT !.rec = With(With(@, "tag_count", Int2Num(Len(item["tags"].c))),
                                 "has_priority", Bool(prio = "True"))]

HighTags(item, st) ==
    IF st.exc /= "none" \/ ~TagsOn(item) THEN st
    ELSE HighTagsSet(item, st, AnyPriority(item["tags"].c))

\* The loop over the tags has ended in cats.  The copy is shallow: a
\* 'categories' value of the input is the very object the loop added to.
HighCategoriesSet(item, st, cats) ==
    [rec |-> IF cats.has THEN With(st.rec, "categories", cats.val) ELSE st.rec,
     item |-> IF "categories" \in DOMAIN item
              THEN [item EXCEPT !["categories"] = cats.val]
              ELSE item,
     cache |-> st.cache,
     exc |-> cats.exc]

HighCategories(item, st) ==
    IF st.exc /= "none" \/ ~TagsOn(item) THEN st
    ELSE HighCategoriesSet(item, st,
           AddCategories(item["tags"].c,
             [has |-> "categories" \in DOMAIN item,
              val |-> IF "categories" \in DOMAIN item THEN item["categories"] ELSE None,
              exc |-> "none"]))

\* long_word_count and has_priority_keywords from the words w of the description.
HighDescriptionSet(st, w) ==
    IF HasPriorityKeyword(w)
    THEN [st EXCEPT !.rec = With(With(@, "long_word_count", Int2Num(LongWordCount(w))),
                                 "has_priority_keywords", Bool(TRUE))]
    ELSE [st EXCEPT !.rec = With(@, "long_word_count", Int2Num(LongWordCount(w)))]

HighDescription(item, st) ==
    IF \/ st.exc /= "none"
       \/ ~("description" \in DOMAIN item /\ item["description"].k = "str")
    THEN st
    ELSE HighDescriptionSet(st, Words(item["description"].t, <<>>))

\* factorial, fact being what _calculate_factorial gave.
HighFactorialSet(st, fact) ==
    [st EXCEPT !.rec = With(@, "factorial", Int2Num(fact.val)), !.cache = fact.cache]

HighFactorial(item, st) ==
    IF st.exc /= "none" \/ ~("value" \in DOMAIN item /\ IsNumber(item["value"])) THEN st
    ELSE HighFactorialSet(st,
           _calculate_factorial(IntAbs(item["value"]) % FactorialModulus, st.cache))

\* [rec, item, cache, exc]: the enriched copy, the input record after the
\* call, the cache after the call, and the exception raised ("none": none).
_process_high_value(item, cch) ==
    HighFactorial(item,
      HighDescription(item,
        HighCategories(item,
          HighTags(item, Enriching(item, cch)))))

----------------------------------------------------------------------------
(* ComplexProcessor._process_medium_value *)

\* {k.upper(): str(v) for k, v in entries}: [c, exc], c the new entries; a key
\* that is not a text has no upper().
RECURSIVE UpperMetadata(_, _)
UpperMetadata(entries, acc) ==
    IF entries = <<>> THEN [c |-> acc, exc |-> "none"]
    ELSE IF Head(entries).key.k /= "str" THEN [c |-> acc, exc |-> "AttributeError"]
    ELSE UpperMetadata(Tail(entries),
           DictPut(acc, Str(Upper(Head(entries).key.t)), Str(PyStr(Head(entries).val))))

\* Some value of the metadata is a dict with the key 'nested'.
HasNested(entries) ==
    \E i \in 1..Len(entries) :
        entries[i].val.k = "map" /\ MapHas(entries[i].val, Str(KNested))

\* metadata and has_nested, up being what the comprehension gave.
MediumSet(item, st, up) ==
    IF up.exc /= "none" THEN [st EXCEPT !.exc = up.exc]
    ELSE IF HasNested(item["metadata"].c)
    THEN [st EXCEPT !.rec = With(With(@, "metadata", Map(up.c)), "has_nested", Bool(TRUE))]
    ELSE [st EXCEPT !.rec = With(@, "metadata", Map(up.c))]

_process_medium_value(item, cch) ==
    IF "metadata" \in DOMAIN item /\ item["metadata"].k = "map"
    THEN MediumSet(item, Enriching(item, cch), UpperMetadata(item["metadata"].c, <<>>))
    ELSE Enriching(item, cch)

----------------------------------------------------------------------------
(* ComplexProcessor._process_low_value *)

_process_low_value(item, cch) ==
    [Enriching(item, cch) EXCEPT !.rec = With(@, "processed", Bool(TRUE))]

----------------------------------------------------------------------------
(* ComplexProcessor._validate_email, _apply_discount, _process_by_type *)

LocalChars == LetterChars \cup DigitChars \cup {".", "_", "%", "+", "-"}
DomainChars == LetterChars \cup DigitChars \cup {".", "-"}

\* Position of the last character of t that lies in cs; 0 when there is none.
LastIn(t, cs) ==
    IF \E i \in 1..Len(t) : t[i] \in cs
    THEN CHOOSE i \in 1..Len(t) : t[i] \in cs /\ \A j \in (i + 1)..Len(t) : t[j] \notin cs
    ELSE 0

\* The part after the '@': a domain, the last '.' (at dot), two letters or more.
DomainMatches(rest, dot) ==
    /\ dot > 1
    /\ \A i \in 1..(dot - 1) : rest[i] \in DomainChars
    /\ Len(rest) - dot >= 2
    /\ \A i \in (dot + 1)..Len(rest) : rest[i] \in LetterChars

\* The local part ends at the first '@' (at at).
EmailMatches(u, at) ==
    /\ at > 1
    /\ \A i \in 1..(at - 1) : u[i] \in LocalChars
    /\ DomainMatches(SubSeq(u, at + 1, Len(u)), LastIn(SubSeq(u, at + 1, Len(u)), {"."}))

\* '$' matches at the end and just before one final newline.
DropFinalNewline(t) ==
    IF t /= <<>> /\ t[Len(t)] = "\n" THEN SubSeq(t, 1, Len(t) - 1) ELSE t

\* bool(re.match(r'^[a-zA-Z0-9._%+-]+@[a-zA-Z0-9.-]+\.[a-zA-Z]{2,}$', t))
_validate_email(t) ==
    EmailMatches(DropFinalNewline(t), FirstIn(DropFinalNewline(t), {"@"}))

\* _apply_discount with the discount applied whatever its value.
ApplyDiscountUnchecked(amount, discount) ==
    RMul(amount, RSub(Int2Num(1), RDiv(discount, Int2Num(DiscountMax))))

\* amount and discount are numbers.
_apply_discount(amount, discount) ==
    IF RLe(Int2Num(0), discount) /\ RLe(discount, Int2Num(DiscountMax))
    THEN RMul(amount, RSub(Int2Num(1), RDiv(discount, Int2Num(DiscountMax))))
    ELSE amount

\* result.setdefault(key, []): the key is added, last, when it is not there.
SetDefault(res, key) ==
    IF \E i \in 1..Len(res.keys) : res.keys[i] = key THEN res
    ELSE [res EXCEPT !.keys = Append(@, key)]

Raise(res, exc, at) == [result |-> res, err |-> [exc |-> exc, at |-> at]]
NoErr == [exc |-> "none", at |-> "none"]

\* The 'user' branch.
ProcessUser(item, res) ==
    IF ~("username" \in DOMAIN item /\ "email" \in DOMAIN item)
    THEN [result |-> res, err |-> NoErr]
    ELSE IF item["email"].k /= "str"
    THEN Raise(SetDefault(res, "users"), "TypeError", "_validate_email")
    ELSE [result |-> [SetDefault(res, "users") EXCEPT !.users =
                        Append(@, [username |-> item["username"],
                                   email |-> item["email"],
                                   is_valid |-> _validate_email(item["email"].t)])],
          err |-> NoErr]

\* The products entry, total and discount being numbers.
ProductEntry(item, total, discount) ==
    [name |-> IF "name" \in DOMAIN item THEN item["name"] ELSE Str(TUnknown),
     total |-> total,
     discounted |-> _apply_discount(total, discount)]

\* The 'product' branch, discount being item.get('discount', 0).  price,
\* quantity and discount are multiplied and compared as numbers: a TypeError
\* stands for every other kind of value (sequence repetition, which Python
\* allows for a text times an int, is not modelled).
ProcessProductWith(item, res, discount) ==
    IF ~(IsNumber(item["price"]) /\ IsNumber(item["quantity"]))
    THEN Raise(res, "TypeError", "_process_by_type")
    ELSE IF ~IsNumber(discount)
    THEN Raise(SetDefault(res, "products"), "TypeError", "_apply_discount")
    ELSE [result |-> [SetDefault(res, "products") EXCEPT !.products =
                        Append(@, ProductEntry(item,
                                    RMul(AsNum(item["price"]), AsNum(item["quantity"])),
                                    AsNum(discount)))],
          err |-> NoErr]

ProcessProduct(item, res) ==
    IF ~("price" \in DOMAIN item /\ "quantity" \in DOMAIN item)
    THEN [result |-> res, err |-> NoErr]
    ELSE ProcessProductWith(item, res,
           IF "discount" \in DOMAIN item THEN item["discount"] ELSE Int2Num(0))

\* The branch for item_type, the lower-cased type.
ByItemType(item, res, item_type) ==
    IF item_type = TUser THEN ProcessUser(item, res)
    ELSE IF item_type = TProduct THEN ProcessProduct(item, res)
    ELSE [result |-> res, err |-> NoErr]

\* [result, err]: the result dict after the call and the exception raised; a
\* type that is not a text has no lower().
_process_by_type(item, res) ==
    IF item["type"].k /= "str" THEN Raise(res, "AttributeError", "_process_by_type")
    ELSE ByItemType(item, res, Lower(item["type"].t))

----------------------------------------------------------------------------
(* ComplexProcessor.process_data: one pass of the loop over self.data *)

\* The result dict at the start of process_data.
NewResult ==
    [keys |-> <<"high", "medium", "low">>,
     high |-> <<>>, medium |-> <<>>, low |-> <<>>,
     users |-> <<>>, products |-> <<>>, counts |-> <<>>]

\* The {} that process_complex_data returns for no data.
EmptyResult == [NewResult EXCEPT !.keys = <<>>]

\* `not item or 'value' not in item`
Skipped(item) == DOMAIN item = {} \/ "value" \notin DOMAIN item

Enrich(category, item, cch) ==
    CASE category = "high" -> _process_high_value(item, cch)
      [] category = "medium" -> _process_medium_value(item, cch)
      [] OTHER -> _process_low_value(item, cch)

Bucket(res, category) ==
    CASE category = "high" -> res.high
      [] category = "medium" -> res.medium
      [] OTHER -> res.low

\* AppendTo with the record put at the front of its bucket.
PrependTo(res, category, rec) ==
    CASE category = "high" -> [res EXCEPT !.high = <<rec>> \o @]
      [] category = "medium" -> [res EXCEPT !.medium = <<rec>> \o @]
      [] OTHER -> [res EXCEPT !.low = <<rec>> \o @]

AppendTo(res, category, rec) ==
    CASE category = "high" -> [res EXCEPT !.high = Append(@, rec)]
      [] category = "medium" -> [res EXCEPT !.medium = Append(@, rec)]
      [] OTHER -> [res EXCEPT !.low = Append(@, rec)]

\* The rest of the body once the record is enriched and appended to res1:
\* the side aggregation, for a record with a 'type'.
AfterAppend(item, enriched, res1) ==
    IF "type" \in DOMAIN item
    THEN [item |-> enriched.item, cache |-> enriched.cache] @@ _process_by_type(item, res1)
    ELSE [result |-> res1, item |-> enriched.item, cache |-> enriched.cache, err |-> NoErr]

\* The rest of the body once the enricher of the category has returned or raised.
AfterEnrich(item, res, category, enriched) ==
    IF enriched.exc /= "none"
    THEN [result |-> res, item |-> enriched.item, cache |-> enriched.cache,
          err |-> [exc |-> enriched.exc,
                   at |-> IF category = "high" THEN "_process_high_value"
                          ELSE "_process_medium_value"]]
    ELSE AfterAppend(item, enriched, AppendTo(res, category, enriched.rec))

\* The rest of the body once the record has its category.
AfterCategorize(item, res, cch, category) ==
    AfterEnrich(item, res, category, Enrich(category, item, cch))

\* LoopBody with the side aggregation run before the check for a 'value'.
LoopBodyTypeFirst(item, thr, res, cch) ==
    IF Skipped(item)
    THEN IF "type" \in DOMAIN item
         THEN [item |-> item, cache |-> cch] @@ _process_by_type(item, res)
         ELSE [result |-> res, item |-> item, cache |-> cch, err |-> NoErr]
    ELSE AfterCategorize(item, res, cch, _categorize_value(item["value"], thr))

\* The body of the loop for one record: [result, item, cache, err].
LoopBody(item, thr, res, cch) ==
    IF Skipped(item)
    THEN [result |-> res, item |-> item, cache |-> cch, err |-> NoErr]
    ELSE AfterCategorize(item, res, cch, _categorize_value(item["value"], thr))

\* The call starts: process_complex_data returns {} at once for no data, and
\* otherwise builds a processor (an empty cache) and calls process_data.
Start ==
    /\ pc = "start"
    /\ IF entry = "process_complex_data" /\ data = <<>>
       THEN /\ pc' = "done"
            /\ result' = EmptyResult
       ELSE /\ pc' = "loop"
            /\ result' = NewResult
    /\ idx' = 1
    /\ cache' = <<>>
    /\ UNCHANGED <<data, data0, threshold, entry, err, it, run, prev, catVars, otherVars>>

\* One record of the loop of process_data.
ProcessItem ==
    /\ pc = "loop"
    /\ idx <= Len(data)
    /\ LET out == LoopBody(data[idx], threshold, result, cache)
       IN  /\ result' = out.result
           /\ data' = [data EXCEPT ![idx] = out.item]
           /\ cache' = out.cache
           /\ err' = out.err
           /\ pc' = IF out.err.exc = "none" THEN "loop" ELSE "raised"
    /\ idx' = idx + 1
    /\ UNCHANGED <<data0, threshold, entry, it, run, prev, catVars, otherVars>>

\* process_data returns; process_complex_data goes on with its loop over the
\* keys of the result.
ReturnResult ==
    /\ pc = "loop"
    /\ idx > Len(data)
    /\ IF entry = "process_data"
       THEN pc' = "done" /\ it' = it
       ELSE pc' = "post" /\ it' = [pos |-> 0, used |-> Len(result.keys)]
    /\ UNCHANGED <<data, data0, threshold, entry, idx, result, err, cache, run, prev, catVars, otherVars>>

----------------------------------------------------------------------------
(* process_complex_data: `for category in result: ... result[f'{category}_count'] = ...` *)

Tiers == {"high", "medium", "low"}

CountKey(category) ==
    CASE category = "high" -> "high_count"
      [] category = "medium" -> "medium_count"
      [] category = "low" -> "low_count"

\* result[key] = n for a count key.
SetCount(res, key, n) ==
    [SetDefault(res, key) EXCEPT !.counts = (key :> n) @@ @]

\* One step of the loop: the dict iterator raises when the dict has changed
\* size since the iterator was made, stops after the last key, and otherwise
\* hands out the next key, whose count the body stores.
PostStep ==
    /\ pc = "post"
    /\ IF Len(result.keys) /= it.used
       THEN /\ pc' = "raised"
            /\ err' = [exc |-> "RuntimeError", at |-> "process_complex_data"]
            /\ UNCHANGED <<result, it>>
       ELSE IF it.pos >= Len(result.keys)
       THEN /\ pc' = "done"
            /\ UNCHANGED <<result, it, err>>
       ELSE /\ LET category == result.keys[it.pos + 1]
               IN  result' = IF category \in Tiers
                             THEN SetCount(result, CountKey(category),
                                           Len(Bucket(result, category)))
                             ELSE result
            /\ it' = [it EXCEPT !.pos = @ + 1]
            /\ UNCHANGED <<pc, err>>
    /\ UNCHANGED <<data, data0, threshold, entry, idx, cache, run, prev, catVars, otherVars>>

\* process_data is called again on the same processor (the cache is kept).
Rerun ==
    /\ pc = "done"
    /\ entry = "process_data"
    /\ run < MaxRuns
    /\ prev' = result
    /\ result' = NewResult
    /\ idx' = 1
    /\ pc' = "loop"
    /\ run' = run + 1
    /\ UNCHANGED <<data, data0, threshold, entry, err, cache, it, catVars, otherVars>>

Next == Start \/ ProcessItem \/ ReturnResult \/ PostStep \/ Rerun

----------------------------------------------------------------------------
(* The inputs of process_data and process_complex_data *)

RECURSIVE SeqsOfLen(_, _)
SeqsOfLen(S, k) ==
    IF k = 0 THEN {<<>>}
    ELSE {<<x>> \o q : x \in S, q \in SeqsOfLen(S, k - 1)}

SeqsUpTo(S, k) == UNION {SeqsOfLen(S, j) : j \in 0..k}

\* A negative threshold, the default, and a small one.
RunThresholds == {-MaxThreshold, MaxThreshold, DefaultThreshold}

Text_5 == <<"5">>
Text_25 == <<"2", "5">>
Text_c == <<"c">>
Text_d == <<"d">>
Text_x == <<"x">>
Text_User == <<"U", "s", "e", "r">>
Text_order == <<"o", "r", "d", "e", "r">>
Text_PRODUCT == <<"P", "R", "O", "D", "U", "C", "T">>
Text_name == <<"n", "a", "m", "e">>
Text_john == <<"j", "o", "h", "n", "_", "d", "o", "e">>
Text_Laptop == <<"L", "a", "p", "t", "o", "p">>
EmailValid == <<"a", "@", "b", ".", "c", "o">>
EmailNoTld == <<"j", "a", "n", "e", "@", "e", "x", "a", "m", "p", "l", "e">>

\* Values of the 'value' field: numbers of each kind on both sides of the
\* boundaries, a long text, and values that are neither numbers nor texts.
\* (The boundaries themselves are the matter of CatSpec.)
RunValues ==
    { Int2Num(15), Int2Num(25), Rat(51, 2), Int2Num(-5), Bool(TRUE),
      Str(Rep("a", HighTextLen + 1)),
      None, List(<<>>), Map(<<Entry(Str(Text_name), Int2Num(25))>>) }

\* Records that process_data skips: the empty one, and records without a
\* 'value' that have a recognised type and all its fields.
NoValueItems ==
    { <<>>,
      [type |-> Str(TUser), username |-> Str(Text_john), email |-> Str(EmailValid)],
      [type |-> Str(TProduct), price |-> Int2Num(100), quantity |-> Int2Num(2)],
      [tags |-> List(<<Str(Text_x)>>), type |-> Int2Num(5)] }

TierItems ==
    {[value |-> v] : v \in RunValues}
      \cup NoValueItems
      \cup { [value |-> Int2Num(25), factorial |-> Int2Num(7)],
             [value |-> Int2Num(1), factorial |-> Int2Num(7)],
             [value |-> Str(Text_25), factorial |-> Int2Num(7)],
             [value |-> None, processed |-> Bool(FALSE), type |-> Str(TUser),
              username |-> Str(Text_john), email |-> Str(EmailValid)] }

\* The 'tags' fields tried: no list, the empty list, entries with and without
\* 'priority' and 'category', and entries that are not dicts.
TagLists ==
    { Str(Text_x),
      List(<<>>),
      List(<<Map(<<Entry(Str(KCategory), Str(Text_c))>>)>>),
      List(<<Map(<<Entry(Str(KPriority), Bool(TRUE))>>)>>),
      List(<<Map(<<Entry(Str(KPriority), Int2Num(0)), Entry(Str(KCategory), Str(Text_c))>>),
             Map(<<Entry(Str(KCategory), Str(Text_d))>>)>>),
      List(<<Map(<<Entry(Str(KCategory), Str(Text_c))>>),
             Map(<<Entry(Str(KCategory), Str(Text_c))>>)>>),
      List(<<Str(Text_x)>>),
      List(<<None>>),
      List(<<Map(<<Entry(Str(KPriority), Int2Num(1))>>), Str(Text_x)>>),
      List(<<Map(<<Entry(Str(KCategory), Str(Text_c))>>), Int2Num(5)>>),
      List(<<Map(<<Entry(Str(KCategory), List(<<>>))>>)>>) }

\* The 'categories' fields a record may already carry: a set (what the high
\* enricher writes) or a list.
CategoryFields == {PySet({Str(Text_d)}), PySet({Str(Text_c)}), List(<<Str(Text_d)>>)}

TagItems ==
    {[value |-> Int2Num(25), tags |-> t] : t \in TagLists}
      \cup {[value |-> Int2Num(25), tags |-> t, categories |-> c] :
              t \in TagLists, c \in CategoryFields}
      \cup { [value |-> Int2Num(1), tags |-> List(<<Str(Text_x)>>)],
             [value |-> Int2Num(25), categories |-> PySet({Str(Text_d)})],
             [value |-> Int2Num(25)] }

Descriptions ==
    { <<"a", " ", "c", "r", "i", "t", "i", "c", "a", "l", " ", "b", "u", "g">>, <<"U", "R", "G", "E", "N", "T", ":", " ", "f", "i", "x">>, <<"l", "o", "w", "e", "s", "t", " ", "p", "r", "i", "o", "r", "i", "t", "y", " ", "i", "t", "e", "m">>,
      <<"M", "e", "d", "i", "u", "m", "_", "r", "a", "r", "e">>, <<"a", "b", "c", "d", "e", "f", " ", "a", "b", "c", "d", "e", " ", "a", "b", "c", "d", "e", "f", "g">>, <<>> }

MetadataFields ==
    { Map(<<>>),
      Map(<<Entry(Str(Text_name), Int2Num(5))>>),
      Map(<<Entry(Str(Text_name), Rat(5, 2)), Entry(Str(Text_User), None)>>),
      Map(<<Entry(Str(Text_c), Str(Text_x)), Entry(Str(<<"C">>), Bool(TRUE))>>),
      Map(<<Entry(Str(Text_c), Map(<<Entry(Str(KNested), Int2Num(1))>>)),
            Entry(Str(Text_d), List(<<Int2Num(1), Str(Text_x)>>))>>),
      Map(<<Entry(Int2Num(1), Int2Num(2))>>),
      List(<<>>) }

EnrichItems ==
    {[value |-> Int2Num(25), description |-> Str(t)] : t \in Descriptions}
      \cup {[value |-> Int2Num(25), description |-> Int2Num(5)]}
      \cup {[value |-> Int2Num(15), metadata |-> m] : m \in MetadataFields}
      \cup {[value |-> Int2Num(1), metadata |-> Map(<<Entry(Int2Num(1), Int2Num(2))>>)]}

\* Records with a 'type': users in every tier, with and without their fields.
UserItems ==
    {[value |-> v, type |-> Str(t)] @@ u @@ e :
        v \in {Int2Num(1), Int2Num(25)},
        t \in {TUser, Text_User},
        u \in {<<>>, [username |-> Str(Text_john)]},
        e \in {<<>>, [email |-> Str(EmailValid)], [email |-> Str(EmailNoTld)]}}
      \cup { [value |-> Int2Num(15), type |-> Str(TUser),
              username |-> Str(Text_john), email |-> Str(EmailValid)],
             [value |-> Int2Num(1), type |-> Str(Text_order),
              username |-> Str(Text_john), email |-> Str(EmailValid)],
             [value |-> Int2Num(25), type |-> Str(Text_order)],
             [value |-> Int2Num(1), type |-> Int2Num(5)],
             [value |-> Int2Num(1), type |-> Str(TUser),
              username |-> Str(Text_john), email |-> Int2Num(5)],
             [value |-> Int2Num(1)],
             [type |-> Str(TUser), username |-> Str(Text_john), email |-> Str(EmailValid)] }

\* Products: integral and fractional prices, discounts inside, on the edges of
\* and outside 0..100, with and without a name.
Discounts ==
    { <<>>, [discount |-> Int2Num(0)], [discount |-> Int2Num(10)],
      [discount |-> Rat(25, 2)], [discount |-> Int2Num(DiscountMax)],
      [discount |-> Int2Num(DiscountMax + 50)], [discount |-> Int2Num(-5)] }

ProductItems ==
    {[value |-> Int2Num(1), type |-> Str(TProduct), price |-> Int2Num(100),
      quantity |-> Int2Num(1)] @@ d : d \in Discounts}
      \cup {[value |-> Int2Num(1), type |-> Str(TProduct), price |-> Rat(5, 2),
              quantity |-> Int2Num(3), name |-> Str(Text_Laptop)] @@ d :
                d \in {<<>>, [discount |-> Rat(25, 2)],
                       [discount |-> Int2Num(DiscountMax + 50)]}}
      \cup { [value |-> Int2Num(25), type |-> Str(Text_PRODUCT), price |-> Int2Num(100),
              quantity |-> Int2Num(2), discount |-> Int2Num(10)],
             [value |-> Int2Num(1), type |-> Str(TProduct), price |-> Int2Num(100)],
             [value |-> Int2Num(1), type |-> Str(TProduct), quantity |-> Int2Num(2)],
             [value |-> Int2Num(1), type |-> Str(Text_order), price |-> Int2Num(100),
              quantity |-> Int2Num(2)],
             [type |-> Str(TProduct), price |-> Int2Num(100), quantity |-> Int2Num(2)] }

\* The records of the example at the end of complex_code.py, with short texts.
SampleItems ==
    { [type |-> Str(TUser), username |-> Str(Text_john), email |-> Str(EmailValid),
       value |-> Int2Num(15)],
      [type |-> Str(TProduct), name |-> Str(Text_Laptop), price |-> Rat(99999, 100),
       quantity |-> Int2Num(2), discount |-> Int2Num(10), value |-> Int2Num(25)],
      [type |-> Str(Text_order), order_id |-> Str(Text_5), value |-> Int2Num(5),
       tags |-> List(<<Map(<<Entry(Str(Text_name), Str(Text_x)),
                             Entry(Str(KCategory), Str(Text_c))>>)>>)],
      [type |-> Str(TUser), username |-> Str(Text_john), email |-> Str(EmailNoTld),
       value |-> Int2Num(8)],
      [type |-> Str(TProduct), name |-> Str(Text_x), price |-> Rat(69999, 100),
       quantity |-> Int2Num(1), value |-> Int2Num(30)],
      [value |-> Int2Num(5)] }

----------------------------------------------------------------------------
(* Specifications: a call of process_data or process_complex_data on records
   drawn from one of the sets above *)

CatIdle ==
    /\ catValue = None
    /\ catThreshold = 0
    /\ catResult = "unset"

EmailIdle ==
    /\ email = None
    /\ emailResult = "unset"

\* No call of simulate_api_call.
NoCall ==
    [pc |-> "idle", endpoint |-> "none", max_retries |-> 0, attempts |-> 0,
     last_error |-> "none",
     result |-> [status |-> "none", endpoint |-> "none", attempts |-> 0,
                 status_code |-> 0, error |-> "none"]]

ApiIdle ==
    /\ call = NoCall
    /\ apiLog = <<>>

NoReport ==
    [test_id |-> "none", version |-> "none", status |-> "none",
     timing |-> [start_time |-> 0, end_time |-> 0, duration_seconds |-> 0],
     stats |-> [total_tests |-> 0, passed |-> 0, failed |-> 0, success_rate |-> 0,
                api_calls |-> <<>>]]

\* No call of test_webhook.
NoHook ==
    [pc |-> "idle", test_id |-> "none", test_start |-> 0, run |-> 0,
     tasks |-> <<>>, completed |-> <<>>, results |-> <<>>, i |-> 0,
     successful |-> 0, failed |-> 0,
     test_results |-> [total_tests |-> 0, passed |-> 0, failed |-> 0, api_calls |-> <<>>],
     report |-> NoReport, error |-> "none"]

HookIdle == hook = NoHook

\* No call of _calculate_factorial from outside process_data.
DirectIdle == direct = [n |-> 0, val |-> 0, calls |-> 0]

\* No call of main.
NoMain == [pc |-> "idle", test_result |-> [metrics |-> "none"], data |-> "none",
           result |-> [status |-> "none"]]

MainIdle == main = NoMain

OtherIdle == EmailIdle /\ ApiIdle /\ HookIdle /\ DirectIdle /\ MainIdle

InitOver(Items) ==
    /\ data \in SeqsUpTo(Items, MaxData)
    /\ data0 = data
    /\ threshold \in RunThresholds
    /\ entry \in {"process_data", "process_complex_data"}
    /\ pc = "start"
    /\ idx = 1
    /\ result = EmptyResult
    /\ err = NoErr
    /\ cache = <<>>
    /\ it = [pos |-> 0, used |-> 0]
    /\ run = 1
    /\ prev = EmptyResult
    /\ CatIdle
    /\ OtherIdle

Init == InitOver(SampleItems)
Spec == Init /\ [][Next]_vars

TierInit == InitOver(TierItems)
TierSpec == TierInit /\ [][Next]_vars

TagInit == InitOver(TagItems)
TagSpec == TagInit /\ [][Next]_vars

EnrichInit == InitOver(EnrichItems)
EnrichSpec == EnrichInit /\ [][Next]_vars

UserInit == InitOver(UserItems)
UserSpec == UserInit /\ [][Next]_vars

ProductInit == InitOver(ProductItems)
ProductSpec == ProductInit /\ [][Next]_vars

----------------------------------------------------------------------------
(* The inputs of _categorize_value *)

Chars == {"1", "2", ".", "-", " ", "a"}

RECURSIVE TextsOfLen(_)
TextsOfLen(k) ==
    IF k = 0 THEN {<<>>}
    ELSE {<<c>> \o t : c \in Chars, t \in TextsOfLen(k - 1)}

ShortTexts == UNION {TextsOfLen(k) : k \in 0..MaxTextLen}

\* Literals of float() that the drawn texts do not reach.
SpecialTexts ==
    { <<"i", "n", "f">>, <<"-", "I", "n", "f">>, <<"n", "a", "n">>,
      <<"+", "N", "A", "N">>, <<"i", "n", "f", "i", "n", "i", "t", "y">>,
      <<"1", "_", "0">>, <<"1", "_", "_", "0">>, <<"_", "1">>,
      <<"1", "e", "1">>, <<"2", "E", "+", "1">>, <<"5", "e", "-", "1">>,
      <<"1", "e">>, <<"e", "1">>, <<"1", ".", "5", "e", "1">>,
      <<"\t", "3", "\n">>, <<"+", "2">>, <<"+", "-", "2">> }

PadChars == {"0", "a"}

Texts ==
    SpecialTexts
      \cup {Rep(p, k) \o t : p \in PadChars, k \in 0..MaxPad, t \in ShortTexts}

\* Numbers in halves, from below zero to above twice the largest threshold.
Numbers == {Rat(i, 2) : i \in -3..(4 * MaxThreshold + 3)}

Thresholds == 1..MaxThreshold

CatValues ==
    {Str(t) : t \in Texts} \cup Numbers
      \cup {Bool(TRUE), Bool(FALSE), None, List(<<>>), List(<<Int2Num(30)>>),
            Map(<<>>), Map(<<Entry(Str(<<"a">>), Int2Num(30))>>)}

----------------------------------------------------------------------------
(* _categorize_value as a call: the arguments are chosen, then it returns *)

ProcIdle ==
    /\ data = <<>>
    /\ data0 = <<>>
    /\ threshold = DefaultThreshold
    /\ entry = "none"
    /\ pc = "idle"
    /\ idx = 1
    /\ result = EmptyResult
    /\ err = NoErr
    /\ cache = <<>>
    /\ it = [pos |-> 0, used |-> 0]
    /\ run = 1
    /\ prev = EmptyResult

CatInit ==
    /\ ProcIdle
    /\ OtherIdle
    /\ catValue \in CatValues
    /\ catThreshold \in Thresholds
    /\ catResult = "unset"

Categorize ==
    /\ catResult = "unset"
    /\ catResult' = _categorize_value(catValue, catThreshold)
    /\ UNCHANGED <<catValue, catThreshold, procVars, otherVars>>

CatNext == Categorize

CatSpec == CatInit /\ [][CatNext]_vars

----------------------------------------------------------------------------
(* _validate_email as a call: the argument is chosen, then it returns or raises *)

EmailChars == {"a", "1", ".", "@", "\n"}

EmailExamples ==
    { EmailValid, EmailNoTld,
      <<"@", "b", ".", "c", "o", "m">>,
      <<"a", "_", "%", "+", "-", "@", "A", "-", ".", "Z", "z">>,
      <<"a", "@", "a", "_", ".", "a", "a">>,
      <<" ", "a", "@", "a", ".", "a", "a">>,
      <<"a", "@", "a", ".", "a", "a", " ">>,
      <<"a", "@", "a", ".", "a", "a", "\n", "\n">> }

EmailTexts == UNION {[1..n -> EmailChars] : n \in 0..MaxEmailLen}

EmailValues ==
    {Str(t) : t \in EmailTexts \cup EmailExamples}
      \cup {None, Int2Num(5), List(<<Str(EmailValid)>>)}

\* re.match on a value that is no text raises TypeError.
ValidateEmailCall(v) ==
    IF v.k /= "str" THEN "TypeError"
    ELSE IF _validate_email(v.t) THEN "True"
    ELSE "False"

EmailInit ==
    /\ ProcIdle
    /\ CatIdle
    /\ email \in EmailValues
    /\ emailResult = "unset"
    /\ ApiIdle
    /\ HookIdle
    /\ DirectIdle
    /\ MainIdle

ValidateEmail ==
    /\ emailResult = "unset"
    /\ emailResult' = ValidateEmailCall(email)
    /\ UNCHANGED <<email, procVars, catVars, apiVars, hookVars, directVars, mainVars>>

EmailNext == ValidateEmail

EmailSpec == EmailInit /\ [][EmailNext]_vars

----------------------------------------------------------------------------
(* example.py, simulate_api_call.  A call is a record of its locals: pc is
   "loop" (at the while test), "request" (in asyncio.sleep, the simulated
   network delay), "backoff" (in the asyncio.sleep of the backoff), "done". *)

StatusOk == 200
StatusError == 500
DefaultMaxRetries == 2

ApiEndpoints == <<"/api/users", "/api/products", "/api/orders">>

NewCall(endpoint, max_retries) ==
    [NoCall EXCEPT !.pc = "loop", !.endpoint = endpoint, !.max_retries = max_retries]

\* The error result of lines 219-226 and 231-237.
ErrorResult(c, error) ==
    [status |-> "error", endpoint |-> c.endpoint, attempts |-> c.attempts,
     status_code |-> StatusError, error |-> error]

\* `while attempts <= max_retries: attempts += 1`, or the return after the loop.
CallLoop(c) ==
    IF c.attempts <= c.max_retries
    THEN [c EXCEPT !.attempts = @ + 1, !.pc = "request"]
    ELSE [c EXCEPT !.pc = "done", !.result = ErrorResult(c, "Max retries exceeded")]

\* The delay is over and random.random() >= 0.2: the call returns.
CallRespond(c) ==
    [c EXCEPT !.pc = "done",
              !.result = [status |-> "success", endpoint |-> c.endpoint,
                          attempts |-> c.attempts, status_code |-> StatusOk,
                          error |-> "none"]]

\* CallFail with the attempts compared with >= : one attempt too few.
CallFailEarly(c) ==
    IF c.attempts >= c.max_retries
    THEN [c EXCEPT !.pc = "done", !.last_error = "Simulated API error",
                   !.result = ErrorResult(c, "Simulated API error")]
    ELSE [c EXCEPT !.pc = "backoff", !.last_error = "Simulated API error"]

\* The delay is over and random.random() < 0.2: the exception is raised and
\* caught; the call returns when the attempts are used up, backs off otherwise.
CallFail(c) ==
    IF c.attempts > c.max_retries
    THEN [c EXCEPT !.pc = "done", !.last_error = "Simulated API error",
                   !.result = ErrorResult(c, "Simulated API error")]
    ELSE [c EXCEPT !.pc = "backoff", !.last_error = "Simulated API error"]

\* The backoff is over: back to the while test.
CallBackoff(c) == [c EXCEPT !.pc = "loop"]

ApiInit ==
    /\ ProcIdle
    /\ CatIdle
    /\ EmailIdle
    /\ HookIdle
    /\ DirectIdle
    /\ MainIdle
    /\ \E i \in 1..Len(ApiEndpoints), m \in -1..MaxRetries :
          call = NewCall(ApiEndpoints[i], m)
    /\ apiLog = <<>>

ApiLoop ==
    /\ call.pc = "loop"
    /\ call' = CallLoop(call)
    /\ apiLog' = IF call'.pc = "request" THEN Append(apiLog, "request") ELSE apiLog
    /\ UNCHANGED <<procVars, catVars, emailVars, hookVars, directVars, mainVars>>

ApiRespond ==
    /\ call.pc = "request"
    /\ call' = CallRespond(call)
    /\ apiLog' = Append(apiLog, "response")
    /\ UNCHANGED <<procVars, catVars, emailVars, hookVars, directVars, mainVars>>

ApiFail ==
    /\ call.pc = "request"
    /\ call' = CallFail(call)
    /\ apiLog' = Append(apiLog, "failure")
    /\ UNCHANGED <<procVars, catVars, emailVars, hookVars, directVars, mainVars>>

ApiBackoff ==
    /\ call.pc = "backoff"
    /\ call' = CallBackoff(call)
    /\ apiLog' = Append(apiLog, "backoff")
    /\ UNCHANGED <<procVars, catVars, emailVars, hookVars, directVars, mainVars>>

ApiNext == ApiLoop \/ ApiRespond \/ ApiFail \/ ApiBackoff

\* The event loop resumes the coroutine when a sleep is over, and every sleep
\* is finite.
ApiSpec == ApiInit /\ [][ApiNext]_vars /\ WF_vars(ApiNext)

----------------------------------------------------------------------------
(* example.py, test_webhook.  pc is "start", "run" (at the test of the loop
   over the runs), "gather" (in asyncio.gather), "process" (in the loop over
   the results), "done", "raised".  Times are ticks of a clock; the durations
   measured with perf_counter and the system information are left out. *)

TestRuns == 3
HookMaxRetries == 2
Version == "4.0.0"

TestIds == {"test_1", "test_2"}
StartTimes == {0, 1}
Elapsed == {1, 2}

\* The state at the entry of test_webhook.
NewHook(test_id, test_start) ==
    [NoHook EXCEPT !.pc = "start", !.test_id = test_id, !.test_start = test_start,
                   !.run = 1]

\* tasks = [simulate_api_call(endpoint, max_retries=...) for endpoint in ...]
NewTasks == [i \in 1..Len(ApiEndpoints) |-> NewCall(ApiEndpoints[i], HookMaxRetries)]

\* One step of a task, failing or not when it is at the end of its delay.
TaskStep(c, fails) ==
    CASE c.pc = "loop" -> CallLoop(c)
      [] c.pc = "request" -> IF fails THEN CallFail(c) ELSE CallRespond(c)
      [] c.pc = "backoff" -> CallBackoff(c)

AllDone(tasks) == \A i \in 1..Len(tasks) : tasks[i].pc = "done"

\* gather with the results in the order the tasks ended.
ResultsAsCompleted(h) == [i \in 1..Len(h.tasks) |-> h.tasks[h.completed[i]].result]

\* What asyncio.gather returns: the results in the order of the tasks.
GatherResults(h) == [i \in 1..Len(h.tasks) |-> h.tasks[i].result]

\* {'run': run, 'endpoint': config['api_endpoints'][i], **result}: the keys of
\* the result come last and win.  Of the result, the status, the endpoint and
\* the status code are kept.
CallEntry(r, endpoint, res) ==
    [run |-> r,
     endpoint |-> IF res.status = "exception" THEN endpoint ELSE res.endpoint,
     status |-> IF res.status = "exception" THEN "error" ELSE res.status,
     status_code |-> res.status_code]

\* The body of `for i, result in enumerate(results)` for the result at h.i.
ProcessResult(h) ==
    [h EXCEPT !.i = @ + 1,
              !.test_results.total_tests = @ + 1,
              !.successful = IF h.results[h.i].status = "success" THEN @ + 1 ELSE @,
              !.failed = IF h.results[h.i].status = "success" THEN @ ELSE @ + 1,
              !.test_results.api_calls =
                  Append(@, CallEntry(h.run, ApiEndpoints[h.i], h.results[h.i]))]

\* round(passed / total_tests * 100, 2), in hundredths of a percent.
SuccessRate(passed, total) ==
    IF total > 0 THEN (2 * 10000 * passed + total) \div (2 * total) ELSE 0

\* The report of lines 357-380, without 'system' and 'config'.
Report(h, test_end) ==
    [test_id |-> h.test_id,
     version |-> Version,
     status |-> "completed",
     timing |-> [start_time |-> h.test_start, end_time |-> test_end,
                 duration_seconds |-> test_end - h.test_start],
     stats |-> [total_tests |-> h.test_results.total_tests,
                passed |-> h.test_results.passed,
                failed |-> h.test_results.failed,
                success_rate |-> SuccessRate(h.test_results.passed,
                                             h.test_results.total_tests),
                api_calls |-> h.test_results.api_calls]]

HookInit ==
    /\ ProcIdle
    /\ CatIdle
    /\ EmailIdle
    /\ ApiIdle
    /\ DirectIdle
    /\ MainIdle
    /\ \E id \in TestIds, t \in StartTimes : hook = NewHook(id, t)

\* Lines 249-302: the configuration, the system information (platform and
\* psutil calls, which may raise), the counters.
HookSetup ==
    /\ hook.pc = "start"
    /\ \/ hook' = [hook EXCEPT !.pc = "run"]
       \/ hook' = [hook EXCEPT !.pc = "raised", !.error = "psutil.Error"]
    /\ UNCHANGED <<procVars, catVars, emailVars, apiVars, directVars, mainVars>>

\* The loop over the runs: the tasks of a run are created and handed to
\* gather, or, after the last run, the report is built and returned.
HookRun ==
    /\ hook.pc = "run"
    /\ IF hook.run <= TestRuns
       THEN hook' = [hook EXCEPT !.pc = "gather", !.tasks = NewTasks,
                                 !.completed = <<>>, !.results = <<>>]
       ELSE \E d \in Elapsed :
              hook' = [hook EXCEPT !.pc = "done",
                                   !.report = Report(hook, hook.test_start + d)]
    /\ UNCHANGED <<procVars, catVars, emailVars, apiVars, directVars, mainVars>>

\* The event loop runs one of the tasks up to its next await or its return.
HookTask ==
    /\ hook.pc = "gather"
    /\ \E i \in 1..Len(hook.tasks), fails \in BOOLEAN :
          /\ hook.tasks[i].pc /= "done"
          /\ hook' = [hook EXCEPT
                 !.tasks[i] = TaskStep(hook.tasks[i], fails),
                 !.completed = IF TaskStep(hook.tasks[i], fails).pc = "done"
                               THEN Append(@, i) ELSE @]
    /\ UNCHANGED <<procVars, catVars, emailVars, apiVars, directVars, mainVars>>

\* All the tasks have ended: gather returns.
HookGather ==
    /\ hook.pc = "gather"
    /\ AllDone(hook.tasks)
    /\ hook' = [hook EXCEPT !.pc = "process", !.results = GatherResults(hook),
                            !.i = 1, !.successful = 0, !.failed = 0]
    /\ UNCHANGED <<procVars, catVars, emailVars, apiVars, directVars, mainVars>>

\* One result is counted and recorded.
HookProcess ==
    /\ hook.pc = "process"
    /\ hook.i <= Len(hook.results)
    /\ hook' = ProcessResult(hook)
    /\ UNCHANGED <<procVars, catVars, emailVars, apiVars, directVars, mainVars>>

\* Lines 341-343, and on to the next run.
HookEndRun ==
    /\ hook.pc = "process"
    /\ hook.i > Len(hook.results)
    /\ hook' = [hook EXCEPT !.pc = "run", !.run = @ + 1,
                            !.test_results.passed = @ + hook.successful,
                            !.test_results.failed = @ + hook.failed]
    /\ UNCHANGED <<procVars, catVars, emailVars, apiVars, directVars, mainVars>>

HookNext ==
    HookSetup \/ HookRun \/ HookTask \/ HookGather \/ HookProcess \/ HookEndRun

HookSpec == HookInit /\ [][HookNext]_vars

----------------------------------------------------------------------------
(* example.py: measure_performance around test_webhook, and main *)

\* async_wrapper, when the coroutine it awaits has ended: the returned
\* report under 'result', or the text of the exception under 'error'.
AsyncWrapper(h) ==
    IF h.pc = "done"
    THEN [result |-> h.report, metrics |-> "metrics"]
    ELSE [error |-> h.error, metrics |-> "metrics"]

\* The dict of main's except branch.
MainError(text, type) == [status |-> "error", error |-> text, error_type |-> type]

\* The first of the keys that d does not hold, "" when it holds them all.
RECURSIVE MissingKey(_, _)
MissingKey(d, keys) ==
    IF keys = <<>> THEN ""
    ELSE IF Head(keys) \notin DOMAIN d THEN Head(keys)
    ELSE MissingKey(d, Tail(keys))

\* The keys of test_result that the result literal reads, in its order.
ResultKeys == <<"test_id", "version", "timing", "stats">>

KeyError(key) == MainError("'" \o key \o "'", "KeyError")

\* The result literal: a subscript on a missing key raises KeyError.
MainResult(tr) ==
    IF MissingKey(tr, ResultKeys) /= "" THEN KeyError(MissingKey(tr, ResultKeys))
    ELSE [status |-> "success",
          test_id |-> tr["test_id"],
          version |-> tr["version"],
          timing |-> [start_time |-> tr["timing"]["start_time"],
                      end_time |-> tr["timing"]["end_time"],
                      total_duration |-> tr["timing"]["duration_seconds"]],
          stats |-> [total_tests |-> tr["stats"]["total_tests"],
                     passed |-> tr["stats"]["passed"],
                     failed |-> tr["stats"]["failed"],
                     success_rate |-> tr["stats"]["success_rate"]]]

\* How the data-processing step can end: the statistics of 1000 numbers are
\* always defined; the tracker's psutil calls may raise.
DataOutcomes == {"ok", "psutil.Error"}

\* main after its await, up to its return.
MainAfter(tr, outcome) ==
    IF "error" \in DOMAIN tr
    THEN [pc |-> "done", test_result |-> tr, data |-> "none",
          result |-> MainError("Test failed: " \o tr["error"], "Exception")]
    ELSE IF outcome /= "ok"
    THEN [pc |-> "done", test_result |-> tr, data |-> "raised",
          result |-> MainError(outcome, "Error")]
    ELSE [pc |-> "done", test_result |-> tr, data |-> "ok", result |-> MainResult(tr)]

\* main has been called and awaits the decorated test_webhook.
MainInit ==
    /\ ProcIdle
    /\ CatIdle
    /\ EmailIdle
    /\ ApiIdle
    /\ DirectIdle
    /\ \E id \in TestIds, t \in StartTimes : hook = NewHook(id, t)
    /\ main = [NoMain EXCEPT !.pc = "await"]

\* test_webhook has ended: the wrapper returns to main, which runs to its
\* return without another await.
MainResume ==
    /\ main.pc = "await"
    /\ hook.pc \in {"done", "raised"}
    /\ \E outcome \in DataOutcomes : main' = MainAfter(AsyncWrapper(hook), outcome)
    /\ UNCHANGED <<procVars, catVars, emailVars, apiVars, hookVars, directVars>>

MainNext == HookNext \/ MainResume

MainSpec == MainInit /\ [][MainNext]_vars

----------------------------------------------------------------------------
(* A processor that is kept: process_data is run on it, and
   _calculate_factorial is called on it between the runs *)

\* Records whose value reaches _calculate_factorial with 0, 5 and 9, and
\* records that do not reach it.
FactItems ==
    { [value |-> Int2Num(10)], [value |-> Int2Num(25)], [value |-> Int2Num(9)],
      [value |-> Str(Text_25)], [value |-> None] }

FactInit == InitOver(FactItems)

CalculateFactorial ==
    /\ pc = "done"
    /\ entry = "process_data"
    /\ direct.calls < MaxCalls
    /\ \E n \in 0..MaxFactorial :
          /\ cache' = _calculate_factorial(n, cache).cache
          /\ direct' = [n |-> n, val |-> _calculate_factorial(n, cache).val,
                      calls |-> direct.calls + 1]
    /\ UNCHANGED <<data, data0, threshold, entry, pc, idx, result, err, it, run, prev,
                   catVars, emailVars, apiVars, hookVars, mainVars>>

FactNext == Next \/ CalculateFactorial

FactSpec == FactInit /\ [][FactNext]_vars

----------------------------------------------------------------------------
(* Claims about process_data and process_complex_data *)

\* The records the loop has been through, as they were handed over.
Seen == SubSeq(data0, 1, idx - 1)

HasValue(r) == "value" \in DOMAIN r

\* process_data is under way or has returned, and nothing was raised.
Normal == pc \in {"loop", "post", "done"}

\* process_data has returned and nothing else has touched the result.
Returned ==
    \/ pc = "done" /\ entry = "process_data"
    \/ pc = "post" /\ it.pos = 0

\* The value-bearing records seen whose value falls in tier c, in input order.
OriginalsOf(c) ==
    SelectSeq(Seen, LAMBDA r : HasValue(r) /\ _categorize_value(r["value"], threshold) = c)

RECURSIVE Factorial(_)
Factorial(n) == IF n = 0 THEN 1 ELSE n * Factorial(n - 1)

\* process_data run from scratch on items: the loop body folded over them.
RECURSIVE FoldItems(_, _, _)
FoldItems(items, thr, st) ==
    IF items = <<>> \/ st.err.exc /= "none" THEN st
    ELSE FoldItems(Tail(items), thr, LoopBody(Head(items), thr, st.result, st.cache))

RunOn(items, thr) ==
    FoldItems(items, thr, [result |-> NewResult, item |-> <<>>, cache |-> <<>>, err |-> NoErr])

\* C1: on a non-empty input process_complex_data returns normally, and the
\* result holds high_count, medium_count and low_count, each the length of
\* its bucket.
C1_CountsAttached ==
    (entry = "process_complex_data" /\ data0 /= <<>>) =>
        /\ pc /= "raised"
        /\ pc = "done" =>
              /\ DOMAIN result.counts = {"high_count", "medium_count", "low_count"}
              /\ result.counts["high_count"] = Len(result.high)
              /\ result.counts["medium_count"] = Len(result.medium)
              /\ result.counts["low_count"] = Len(result.low)

\* The value is neither a number, nor a text.
OddValue(r) == HasValue(r) /\ r["value"].k \in {"none", "list", "map", "set"}

\* C4: a value that is a mapping, a sequence or a null is categorized low
\* without an exception, its record is put in the low bucket, with only the
\* processed flag added, and process_data raises nothing.
C4_OddValuesLow ==
    /\ \A i \in 1..Len(data0) :
          OddValue(data0[i]) =>
              /\ _categorize_value(data0[i]["value"], threshold) = "low"
              /\ (Normal /\ i < idx) =>
                    \E j \in 1..Len(result.low) :
                        result.low[j] = ("processed" :> Bool(TRUE)) @@ data0[i]
    /\ pc = "raised" => err.at = "process_complex_data"

\* process_data has returned with such a record in the low bucket.
C4_Witness ==
    /\ pc = "done" /\ entry = "process_data"
    /\ \E i \in 1..Len(data0) :
          /\ OddValue(data0[i])
          /\ data0[i]["value"].k = "map"
          /\ \E j \in 1..Len(result.low) : result.low[j]["value"] = data0[i]["value"]

\* C5: a record that is empty or has no 'value' is skipped: the result is the
\* result of the same records with the skipped ones removed (so they are in no
\* bucket and add nothing to 'users' or 'products', whatever their type).
C5_SkippedRecords ==
    (pc = "loop" \/ Returned) =>
        result = RunOn(SelectSeq(Seen, HasValue), threshold).result

\* process_data has returned on two records, the first a user with all its
\* fields and no 'value', the second with a 'value'.
C5_Witness ==
    /\ pc = "done" /\ entry = "process_data"
    /\ Len(data0) = 2
    /\ ~HasValue(data0[1])
    /\ DOMAIN data0[1] = {"type", "username", "email"}
    /\ HasValue(data0[2])
    /\ Len(result.high) + Len(result.medium) + Len(result.low) = 1
    /\ result.users = <<>>

\* C6: every value-bearing record seen is in the bucket that _categorize_value
\* names, enriched, once, the buckets keep the input order, and the buckets
\* hold as many records as there are value-bearing records seen.
C6_BucketsPartition ==
    Normal =>
        /\ \A c \in Tiers :
              /\ Len(Bucket(result, c)) = Len(OriginalsOf(c))
              /\ \A j \in 1..Len(OriginalsOf(c)) :
                    /\ Bucket(result, c)[j] = Enrich(c, OriginalsOf(c)[j], <<>>).rec
                    /\ \A f \in DOMAIN OriginalsOf(c)[j] \ {"processed", "factorial"} :
                          Bucket(result, c)[j][f] = OriginalsOf(c)[j][f]
        /\ Len(result.high) + Len(result.medium) + Len(result.low)
              = Cardinality({i \in 1..(idx - 1) : HasValue(data0[i])})

\* process_data has returned with two different records in one bucket.
C6_Witness ==
    /\ pc = "done" /\ entry = "process_data"
    /\ Len(data0) = 2
    /\ Len(result.high) = 2
    /\ result.high[1]["value"] /= result.high[2]["value"]
    /\ result.high[1]["value"] = data0[1]["value"]

\* C7: process_data does not change its input, so that a second run on the
\* same input returns what the first returned.
C7_InputUnchanged ==
    /\ data = data0
    /\ (pc = "done" /\ run = 2) => result = prev

\* C8: a high record whose value is a number v carries factorial =
\* (int(|v|) mod 10)!; a medium or low record, and a high record whose value
\* is a text, carries the factorial field of its original, if any, and no other.
C8_Factorial ==
    Normal =>
        \A c \in Tiers : \A j \in 1..Len(OriginalsOf(c)) :
            IF c = "high" /\ OriginalsOf(c)[j]["value"].k \in {"num", "bool"}
            THEN /\ "factorial" \in DOMAIN Bucket(result, c)[j]
                 /\ Bucket(result, c)[j]["factorial"] =
                       Int2Num(Factorial(
                         IF OriginalsOf(c)[j]["value"].k = "bool" THEN 1
                         ELSE (Abs(OriginalsOf(c)[j]["value"].n)
                                 \div OriginalsOf(c)[j]["value"].d) % 10))
            ELSE /\ ("factorial" \in DOMAIN Bucket(result, c)[j])
                       <=> ("factorial" \in DOMAIN OriginalsOf(c)[j])
                 /\ "factorial" \in DOMAIN OriginalsOf(c)[j] =>
                       Bucket(result, c)[j]["factorial"] = OriginalsOf(c)[j]["factorial"]

\* process_data has returned with a record of value 15 in the high bucket,
\* its factorial 5! = 120.
C8_Witness ==
    /\ pc = "done"
    /\ \E j \in 1..Len(result.high) :
          /\ result.high[j]["value"] = Int2Num(15)
          /\ result.high[j]["factorial"] = Int2Num(120)

\* The record is a user with both its fields, whatever the case of its type.
IsUser(r) ==
    /\ HasValue(r)
    /\ "type" \in DOMAIN r /\ r["type"].k = "str" /\ Lower(r["type"].t) = TUser
    /\ "username" \in DOMAIN r /\ "email" \in DOMAIN r

\* C9: 'users' holds one entry for each value-bearing user record seen that
\* has both 'username' and 'email', in input order, whatever its tier; a
\* record of another type, or without one of the fields, adds nothing and
\* raises nothing; the key is absent when no record qualifies.
C9_UsersAggregated ==
    /\ Normal =>
          /\ Len(result.users) = Len(SelectSeq(Seen, IsUser))
          /\ \A j \in 1..Len(result.users) :
                /\ result.users[j].username = SelectSeq(Seen, IsUser)[j]["username"]
                /\ result.users[j].email = SelectSeq(Seen, IsUser)[j]["email"]
          /\ (\E i \in 1..Len(result.keys) : result.keys[i] = "users")
                <=> SelectSeq(Seen, IsUser) /= <<>>
    /\ (pc = "raised" /\ err.at /= "process_complex_data") => IsUser(data0[idx - 1])

\* The record is a product with a price and a quantity.
IsProduct(r) ==
    /\ HasValue(r)
    /\ "type" \in DOMAIN r /\ r["type"].k = "str" /\ Lower(r["type"].t) = TProduct
    /\ "price" \in DOMAIN r /\ "quantity" \in DOMAIN r

\* The discount of a product record, 0 when it has none.
DiscountOf(r) == IF "discount" \in DOMAIN r THEN r["discount"] ELSE Int2Num(0)

\* total * (1 - d / 100) for numbers total and d.
Discounted(total, d) == Rat(total.n * (100 * d.d - d.n), total.d * 100 * d.d)

\* The entry e is the one the claim describes for the product record r.
IsEntryOf(e, r) ==
    /\ e.total = Rat(r["price"].n * r["quantity"].n, r["price"].d * r["quantity"].d)
    /\ e.name = IF "name" \in DOMAIN r THEN r["name"]
                ELSE Str(<<"U", "n", "k", "n", "o", "w", "n">>)
    /\ e.discounted =
          IF DiscountOf(r).n >= 0 /\ DiscountOf(r).n <= 100 * DiscountOf(r).d
          THEN Discounted(e.total, DiscountOf(r))
          ELSE e.total

\* C10: the products entry of a product record has total = price * quantity,
\* its name or 'Unknown', and discounted = total * (1 - d/100) for a discount
\* d in 0..100, total itself for any other d; nothing is raised.
C10_ProductEntries ==
    /\ Normal =>
          /\ Len(result.products) = Len(SelectSeq(Seen, IsProduct))
          /\ \A j \in 1..Len(result.products) :
                IsEntryOf(result.products[j], SelectSeq(Seen, IsProduct)[j])
    /\ pc = "raised" => err.at = "process_complex_data"

\* process_data has returned on a product of amount 100 with a discount of 10
\* and one with a discount of 150: 90 and 100.
C10_Witness ==
    /\ pc = "done" /\ entry = "process_data"
    /\ Len(data0) = 2 /\ Len(result.products) = 2
    /\ "discount" \in DOMAIN data0[1] /\ data0[1]["discount"] = Int2Num(10)
    /\ "discount" \in DOMAIN data0[2] /\ data0[2]["discount"] = Int2Num(150)
    /\ result.products[1].total = Int2Num(100)
    /\ result.products[1].discounted = Int2Num(90)
    /\ result.products[2].total = Int2Num(100)
    /\ result.products[2].discounted = Int2Num(100)

----------------------------------------------------------------------------
(* Claims about _categorize_value *)

\* The number catValue parses to, as n/d, when it parses to a finite one.
CatParsed == ToFloat(catValue)
CatIsNumber == CatParsed.ok /\ CatParsed.cls \in {"fin", "inf", "ninf"}
\* v > m for the parsed value v and an integer m.
CatAbove(m) ==
    \/ CatParsed.cls = "inf"
    \/ CatParsed.cls = "fin" /\ CatParsed.n > m * CatParsed.d

\* C2: for a threshold t > 0 and a value v that parses as a number (a number
\* or a numeric text), the returned tier is high iff v > 2t, medium iff
\* t < v <= 2t and low iff v <= t; v = t and v = 2t are not promoted.
C2_NumericTiers ==
    (catResult /= "unset" /\ catThreshold > 0 /\ CatIsNumber) =>
        /\ (catResult = "high") <=> CatAbove(2 * catThreshold)
        /\ (catResult = "medium") <=>
               (CatAbove(catThreshold) /\ ~CatAbove(2 * catThreshold))
        /\ (catResult = "low") <=> ~CatAbove(catThreshold)

\* A numeric text equal to twice the threshold has been classified medium.
C2_Witness ==
    /\ catResult = "medium"
    /\ catValue.k = "str"
    /\ CatParsed.ok /\ CatParsed.cls = "fin"
    /\ CatParsed.n = 2 * catThreshold * CatParsed.d

\* C3: for a text that does not parse as a number, whatever the threshold, the
\* returned tier is high iff its length is above 20, medium iff it is above 10
\* and at most 20, low iff it is at most 10.
C3_TextTiers ==
    (catResult /= "unset" /\ catValue.k = "str" /\ ~CatParsed.ok) =>
        /\ (catResult = "high") <=> Len(catValue.t) > 20
        /\ (catResult = "medium") <=> (Len(catValue.t) > 10 /\ Len(catValue.t) <= 20)
        /\ (catResult = "low") <=> Len(catValue.t) <= 10

\* A non-numeric text of length exactly 20 has been classified medium.
C3_Witness ==
    /\ catResult = "medium"
    /\ catValue.k = "str"
    /\ ~CatParsed.ok
    /\ Len(catValue.t) = 20

----------------------------------------------------------------------------
(* Claims about _validate_email *)

\* t is a local part, '@', a domain, '.', two letters or more, and no more.
IsEmailShape(t) ==
    \E at \in 2..Len(t) : \E dot \in (at + 2)..(Len(t) - 2) :
        /\ t[at] = "@"
        /\ t[dot] = "."
        /\ \A i \in 1..(at - 1) : t[i] \in LocalChars
        /\ \A i \in (at + 1)..(dot - 1) : t[i] \in DomainChars
        /\ \A i \in (dot + 1)..Len(t) : t[i] \in LetterChars

\* C11: _validate_email returns true exactly for the texts of the shape
\* local@domain.tld with nothing before or after, and false, without raising,
\* for every other value.
C11_EmailShape ==
    emailResult /= "unset" =>
        /\ emailResult /= "TypeError"
        /\ emailResult = "True" <=> (email.k = "str" /\ IsEmailShape(email.t))

----------------------------------------------------------------------------
(* Claims about the tags of a high record *)

HasTagList(r) == "tags" \in DOMAIN r /\ r["tags"].k = "list"

\* The entries that are mappings with a 'category' field.
WithCategory(tags) ==
    {i \in 1..Len(tags) : tags[i].k = "map" /\ MapHas(tags[i], Str(KCategory))}

TagCategories(tags) == {MapGet(tags[i], Str(KCategory)) : i \in WithCategory(tags)}

\* Some entry carries a truthy 'priority' field.
TagPriority(tags) ==
    \E i \in 1..Len(tags) :
        /\ tags[i].k = "map"
        /\ MapHas(tags[i], Str(KPriority))
        /\ Truthy(MapGet(tags[i], Str(KPriority)))

\* rec is the record r with the fields the claim describes for its tags.
IsTagEnriched(rec, r) ==
    /\ "tag_count" \in DOMAIN rec /\ rec["tag_count"] = Int2Num(Len(r["tags"].c))
    /\ "has_priority" \in DOMAIN rec
    /\ rec["has_priority"] = Bool(TagPriority(r["tags"].c))
    /\ IF TagCategories(r["tags"].c) = {}
       THEN "categories" \in DOMAIN rec <=> "categories" \in DOMAIN r
       ELSE /\ "categories" \in DOMAIN rec
            /\ rec["categories"] =
                  PySet(TagCategories(r["tags"].c)
                          \cup (IF "categories" \in DOMAIN r /\ r["categories"].k = "set"
                                THEN r["categories"].e ELSE {}))

\* C12: the enrichment of a high record whose 'tags' is a list, whatever its
\* entries, raises nothing and yields tag_count = the number of entries,
\* has_priority = some entry has a truthy 'priority', and categories = the
\* categories of the entries that are mappings with a 'category' (none added
\* when there is none).
C12_TagsEnriched ==
    /\ (pc = "raised" /\ err.at = "_process_high_value") => ~HasTagList(data0[idx - 1])
    /\ Normal =>
          \A j \in 1..Len(OriginalsOf("high")) :
              HasTagList(OriginalsOf("high")[j]) =>
                  IsTagEnriched(result.high[j], OriginalsOf("high")[j])

----------------------------------------------------------------------------
(* Claims about simulate_api_call *)

\* The number of events e in the log.
CountOf(e) == Cardinality({i \in 1..Len(apiLog) : apiLog[i] = e})

\* A backoff precedes every attempt but the first, follows every failure but
\* one that ends the log, and comes nowhere else.
BackoffsBetween ==
    \A i \in 1..Len(apiLog) :
        /\ (apiLog[i] = "request" /\ i > 1) => apiLog[i - 1] = "backoff"
        /\ (apiLog[i] = "failure" /\ i < Len(apiLog)) => apiLog[i + 1] = "backoff"
        /\ apiLog[i] = "backoff" =>
              /\ i > 1 /\ apiLog[i - 1] = "failure"
              /\ call.pc /= "done" \/ i < Len(apiLog)

\* What the call returned is what the claim says of the attempts made.
ReturnedAsClaimed ==
    \/ /\ call.result.status = "success"
       /\ call.result.status_code = StatusOk
       /\ call.result.attempts = CountOf("failure") + 1
       /\ apiLog[Len(apiLog)] = "response"
    \/ /\ call.result.status = "error"
       /\ call.result.status_code = StatusError
       /\ call.result.attempts = call.max_retries + 1
       /\ CountOf("failure") = call.max_retries + 1
       /\ CountOf("response") = 0
       /\ apiLog[Len(apiLog)] = "failure"

ApiAsClaimed ==
    call.max_retries >= 0 =>
        /\ call.attempts <= call.max_retries + 1
        /\ CountOf("request") = call.attempts
        /\ BackoffsBetween
        /\ call.pc = "done" => ReturnedAsClaimed

\* C13: with max_retries = m >= 0, whatever attempts fail, simulate_api_call
\* ends, after m + 1 attempts at most, with a success whose attempts is the
\* first attempt that succeeded or, m + 1 attempts having failed, with an
\* error of status_code 500 and attempts = m + 1; a backoff comes before every
\* retry and none after the last failure.
C13_BoundedRetries == []ApiAsClaimed /\ <>(call.pc = "done")

\* A call with max_retries = 2 has ended in an error after three failures.
C13_Witness ==
    /\ call.pc = "done"
    /\ call.max_retries = DefaultMaxRetries
    /\ call.result.status = "error"
    /\ call.result.attempts = 3
    /\ apiLog = <<"request", "failure", "backoff", "request", "failure", "backoff",
                  "request", "failure">>

----------------------------------------------------------------------------
(* Claims about test_webhook *)

\* The number of the api_calls entry of task i in run r.
EntryOf(r, i) == Len(ApiEndpoints) * (r - 1) + i

\* The runs that have been through the update of the statistics.
RunsCompleted == hook.run - 1

\* Nothing of the current run is recorded before all its tasks have ended,
\* and what is recorded at position i is what task i returned.
RecordedAfterAll ==
    /\ Len(hook.test_results.api_calls) > EntryOf(hook.run, 0) => AllDone(hook.tasks)
    /\ hook.pc = "process" =>
          /\ AllDone(hook.tasks)
          /\ \A i \in 1..Len(hook.tasks) : hook.results[i] = hook.tasks[i].result
          /\ \A i \in 1..(hook.i - 1) :
                hook.test_results.api_calls[EntryOf(hook.run, i)].status
                    = hook.tasks[i].result.status

\* Every entry stands at the place of its run and of its endpoint.
EntriesInPlace ==
    \A r \in 1..TestRuns : \A i \in 1..Len(ApiEndpoints) :
        EntryOf(r, i) <= Len(hook.test_results.api_calls) =>
            /\ hook.test_results.api_calls[EntryOf(r, i)].run = r
            /\ hook.test_results.api_calls[EntryOf(r, i)].endpoint = ApiEndpoints[i]

\* C14: however the tasks of a run interleave and in whatever order they end,
\* their results are processed only after all have ended, the i-th result is
\* recorded against the i-th endpoint, and after each run total_tests =
\* passed + failed = endpoints * runs completed, with one api_calls entry per
\* call.
C14_GatherThenProcess ==
    hook.pc \in {"run", "gather", "process", "done"} =>
        /\ RecordedAfterAll
        /\ EntriesInPlace
        /\ hook.pc \in {"run", "done"} =>
              /\ hook.test_results.total_tests = Len(ApiEndpoints) * RunsCompleted
              /\ hook.test_results.passed + hook.test_results.failed
                    = hook.test_results.total_tests
              /\ Len(hook.test_results.api_calls) = hook.test_results.total_tests

\* The first run is over; its third task ended first, in an error, the two
\* others succeeded.
C14_Witness ==
    /\ hook.pc = "run"
    /\ hook.run = 2
    /\ hook.completed = <<3, 1, 2>>
    /\ hook.test_results.api_calls[3].status = "error"
    /\ hook.test_results.api_calls[3].endpoint = "/api/orders"
    /\ hook.test_results.passed = 2
    /\ hook.test_results.failed = 1

----------------------------------------------------------------------------
(* Claims about the cache of _calculate_factorial *)

CacheIsFactorial == \A n \in DOMAIN cache : n >= 0 /\ cache[n] = Factorial(n)

CallReturnsFactorial == direct.calls > 0 => direct.val = Factorial(direct.n)

\* The processor has just been created.
FreshIsEmpty == pc = "start" => cache = <<>>

\* The keys a step of process_data adds to the cache.
KeysInDigits == ProcessItem => (DOMAIN cache' \ DOMAIN cache) \subseteq 0..9

\* C15: whatever runs of process_data and calls of _calculate_factorial (with
\* n >= 0) have been made, every key n of the cache holds n!; a call returns
\* n! whatever is cached; the keys process_data adds lie in 0..9; a new
\* processor has an empty cache.
C15_CacheHoldsFactorials ==
    /\ [](CacheIsFactorial /\ CallReturnsFactorial /\ FreshIsEmpty)
    /\ [][KeysInDigits]_vars

\* After a run that cached 1..5, _calculate_factorial(10) has returned 10!.
C15_Witness ==
    /\ pc = "done"
    /\ direct.calls = 1
    /\ direct.n = 10
    /\ direct.val = 3628800
    /\ Len(result.high) = 1
    /\ result.high[1]["value"] = Int2Num(25)
    /\ DOMAIN cache = 1..10

----------------------------------------------------------------------------
(* Claims about main *)

\* main's result carries what the report of test_webhook holds.
CarriesReport(res, report) ==
    /\ res.status = "success"
    /\ res.test_id = report.test_id
    /\ res.version = report.version
    /\ res.timing = [start_time |-> report.timing.start_time,
                     end_time |-> report.timing.end_time,
                     total_duration |-> report.timing.duration_seconds]
    /\ res.stats = [total_tests |-> report.stats.total_tests,
                    passed |-> report.stats.passed,
                    failed |-> report.stats.failed,
                    success_rate |-> report.stats.success_rate]

\* C16: when test_webhook has completed without raising (and the
\* data-processing step did not raise), main returns status 'success' with
\* the test_id, version, timing and stats of the report test_webhook built;
\* main returns status 'error' only when the suite or the data-processing
\* step raised.
C16_MainReturnsReport ==
    main.pc = "done" =>
        /\ (hook.pc = "done" /\ main.data = "ok") => CarriesReport(main.result, hook.report)
        /\ main.result.status = "error" => (hook.pc = "raised" \/ main.data = "raised")

====
